---- MODULE Spec2Model ----
(***************************************************************************)
(* metachor: the phase-budgeted orchestration of Ensemble                  *)
(* (src/metachor/ensemble.py) over its Voices (src/metachor/voice.py).     *)
(*                                                                         *)
(* Time is an integer number of milliseconds.  The coroutine of a call     *)
(* runs without interruption between two awaits, and takes no time there;  *)
(* time passes only while asyncio.wait_for is awaited.  Strings are        *)
(* sequences of one-character strings (longer literals are one element).   *)
(* The prompt text handed to the voices is not modelled: a voice is an     *)
(* opaque capability whose reply, failure or silence is nondeterministic.  *)
(***************************************************************************)
EXTENDS Integers, Sequences, FiniteSets, TLC

(* ------------------------------ bounds --------------------------------- *)

\* The longest voice list of an Ensemble.
MaxVoices == 2

\* The largest max_time a caller passes to send, in seconds.
MaxTimeSec == 10

\* The largest max_tokens a caller passes to send.
MaxTokens == 100

\* The largest max_iterations a caller passes to send.
MaxIterations == 2

\* The longest voice list the rotation policy is examined on.
MaxRotVoices == 4

\* The most public calls made on one Ensemble, one after the other.
MaxCalls == 2

\* The longest list of Messages _integrate_responses is examined on.
MaxMessages == 3

(* ------------------------- program constants --------------------------- *)

\* Voice.__init__(max_tokens=1000): the cap used when no budget is given.
VoiceDefaultMaxTokens == 1000

\* initialize_meta_discussion: max_tokens = 200 * len(self.voices).
MetaTokensPerVoice == 200

\* initialize_meta_discussion: max_time = 5.0 (seconds).
MetaMaxTimeSec == 5

\* Milliseconds per second: the resolution of the clock.
TimeUnit == 1000

\* The clock is sampled every second and at every deadline.
Step == TimeUnit

(* ------------------------------ types ---------------------------------- *)

INITIALIZATION == "initialization"
USER_ANALYSIS == "user_analysis"
RESPONSE_PLANNING == "planning"
RESPONSE_DRAFTING == "drafting"
RESPONSE_REFINING == "refining"

Phase == {INITIALIZATION, USER_ANALYSIS, RESPONSE_PLANNING, RESPONSE_DRAFTING,
          RESPONSE_REFINING}

\* The weights of PHASE_BUDGETS in percent (0.1 is 10).
PHASE_BUDGETS ==
    [p \in Phase |->
        CASE p = INITIALIZATION -> [time |-> 10, tokens |-> 10]
          [] p = USER_ANALYSIS -> [time |-> 20, tokens |-> 20]
          [] p = RESPONSE_PLANNING -> [time |-> 20, tokens |-> 20]
          [] p = RESPONSE_DRAFTING -> [time |-> 40, tokens |-> 40]
          [] p = RESPONSE_REFINING -> [time |-> 10, tokens |-> 10]]

ResourceConstraints(max_tokens, max_iterations, max_time) ==
    [max_tokens |-> max_tokens, max_iterations |-> max_iterations,
     max_time |-> max_time]

Message(content, tokens_used, from_model, to_model, ph) ==
    [content |-> content, tokens_used |-> tokens_used, from_model |-> from_model,
     to_model |-> to_model, phase |-> ph]

\* The model ids of the voices an Ensemble can be built from.
ModelIds == <<"m1", "m2", "m3", "m4", "m5">>

\* What a completion service answers: the text and usage.total_tokens.
Replies ==
    { [content |-> <<"a">>, tokens_used |-> 4],
      [content |-> <<" ", "b", "\n">>, tokens_used |-> 30] }

\* The constraints a caller passes to send.
CallerConstraints ==
    { ResourceConstraints(t, it, s * TimeUnit) :
        t \in {MaxTokens \div 10, MaxTokens}, it \in {MaxIterations},
        s \in {1, MaxTimeSec} }

(* ----------------------------- helpers --------------------------------- *)

Range(s) == {s[k] : k \in DOMAIN s}

Min(a, b) == IF a <= b THEN a ELSE b

Max(a, b) == IF a >= b THEN a ELSE b

RECURSIVE SumTokens(_)
\* sum(r.tokens_used for r in responses)
SumTokens(ms) ==
    IF ms = <<>> THEN 0 ELSE Head(ms).tokens_used + SumTokens(Tail(ms))

Whitespace == {" ", "\n", "\t"}

RECURSIVE LStrip(_)
LStrip(s) ==
    IF s # <<>> /\ Head(s) \in Whitespace THEN LStrip(Tail(s)) ELSE s

RECURSIVE RStrip(_)
RStrip(s) ==
    IF s # <<>> /\ s[Len(s)] \in Whitespace
    THEN RStrip(SubSeq(s, 1, Len(s) - 1))
    ELSE s

\* A strip that takes one whitespace character at most from each end.
StripOnce(s) ==
    LET l == IF s # <<>> /\ Head(s) \in Whitespace THEN Tail(s) ELSE s
    IN IF l # <<>> /\ l[Len(l)] \in Whitespace THEN SubSeq(l, 1, Len(l) - 1) ELSE l

\* str.strip()
Strip(s) == RStrip(LStrip(s))

RECURSIVE Join(_, _)
\* sep.join(parts)
Join(sep, parts) ==
    IF parts = <<>> THEN <<>>
    ELSE IF Len(parts) = 1 THEN parts[1]
    ELSE parts[1] \o sep \o Join(sep, Tail(parts))

\* needle in haystack, for strings
Contains(haystack, needle) ==
    \E k \in 0..(Len(haystack) - Len(needle)) :
        SubSeq(haystack, k + 1, k + Len(needle)) = needle

(* ------------------------- pure functions ------------------------------ *)

\* list.index(x), 1-based; 0 when x is not in the list (ValueError).
IndexOf(vs, x) ==
    IF x \in Range(vs) THEN CHOOSE k \in DOMAIN vs : vs[k] = x /\ \A j \in 1..(k - 1) : vs[j] # x
    ELSE 0

\* _get_next_voice with the step of the rotation lost: next_idx = current_idx % len.
GetNextVoiceNoStep(vs, current_voice) ==
    IF vs = <<>> THEN "ValueError"
    ELSE IF IndexOf(vs, current_voice) = 0 THEN vs[1]
    ELSE LET current_idx == IndexOf(vs, current_voice) - 1
             next_idx == current_idx % Len(vs)
         IN vs[next_idx + 1]

\* Ensemble._get_next_voice; "ValueError" stands for the raise of line 269.
GetNextVoice(vs, current_voice) ==
    IF vs = <<>> THEN "ValueError"
    ELSE IF IndexOf(vs, current_voice) = 0 THEN vs[1]
    ELSE LET current_idx == IndexOf(vs, current_voice) - 1
             next_idx == (current_idx + 1) % Len(vs)
         IN vs[next_idx + 1]

RECURSIVE UniqueContentsKeepAll(_, _)
\* The loop of _integrate_responses without its test for a content already seen.
UniqueContentsKeepAll(responses, unique_contents) ==
    IF responses = <<>> THEN unique_contents
    ELSE LET content == Strip(Head(responses).content)
         IN UniqueContentsKeepAll(Tail(responses),
                IF content # <<>>
                THEN Append(unique_contents, content)
                ELSE unique_contents)

RECURSIVE UniqueContents(_, _)
\* The loop of _integrate_responses: unique stripped, non-empty contents.
UniqueContents(responses, unique_contents) ==
    IF responses = <<>> THEN unique_contents
    ELSE LET content == Strip(Head(responses).content)
         IN UniqueContents(Tail(responses),
                IF content # <<>> /\ content \notin Range(unique_contents)
                THEN Append(unique_contents, content)
                ELSE unique_contents)

\* Ensemble._integrate_responses
IntegrateResponses(responses) ==
    IF responses = <<>> THEN <<>>
    ELSE Join(<<"\n", "\n">>, UniqueContents(responses, <<>>))

NoResponseNotice == <<"No response generated within resource constraints.">>

\* f"{seconds:.2f}" of a time in milliseconds
FormatSeconds(ms) ==
    LET cs == (ms + 5) \div 10
    IN <<ToString(cs \div 100), ".", ToString((cs % 100) \div 10), ToString(cs % 10)>>

\* _format_final_response without its fallback for an empty response.
FormatFinalResponseNoNotice(response, tokens, elapsed) ==
    IF response = <<>> THEN <<>>
    ELSE Strip(response)
            \o <<"\n", "\n", "-", "-", "-", "\n", "Generated using ", ToString(tokens),
                 " tokens in ">>
            \o FormatSeconds(elapsed) \o <<"s">>

\* Ensemble._format_final_response (the second definition, which is the one bound)
FormatFinalResponse(response, tokens, elapsed) ==
    IF response = <<>> THEN NoResponseNotice
    ELSE Strip(response)
            \o <<"\n", "\n", "-", "-", "-", "\n", "Generated using ", ToString(tokens),
                 " tokens in ">>
            \o FormatSeconds(elapsed) \o <<"s">>

\* f"Error during response generation: {str(e)}"
ErrorResponse(exc) == <<"Error during response generation: ", exc>>

\* The time budget with the weight taken ten times too large.
TimeBudgetTenfold(ph, cons) == (cons.max_time * PHASE_BUDGETS[ph].time) \div 10

\* The token budget with the weight taken ten times too large.
TokenBudgetTenfold(ph, cons) == (cons.max_tokens * PHASE_BUDGETS[ph].tokens) \div 10

\* constraints.max_time * PHASE_BUDGETS[phase]["time"]
TimeBudget(ph, cons) == (cons.max_time * PHASE_BUDGETS[ph].time) \div 100

\* int(constraints.max_tokens * PHASE_BUDGETS[phase]["tokens"])
TokenBudget(ph, cons) == (cons.max_tokens * PHASE_BUDGETS[ph].tokens) \div 100

\* Voice.send: "max_tokens": max_tokens or self.max_tokens
RequestCap(max_tokens) ==
    IF max_tokens # 0 THEN max_tokens ELSE VoiceDefaultMaxTokens

\* The exceptions of the model; each is a subclass of Exception.
Exceptions == {"RuntimeError", "TimeoutError", "PhaseTimeoutError"}

\* _run_phase_with_timeout: except asyncio.TimeoutError: raise PhaseTimeoutError
RunPhaseRaises(exc) ==
    IF exc = "TimeoutError" THEN "PhaseTimeoutError" ELSE exc

\* _collaborate_phase: except PhaseTimeoutError / except Exception
CollaborateCatches(exc) == exc = "PhaseTimeoutError" \/ exc \in Exceptions

\* initialize_meta_discussion: except PhaseTimeoutError / except Exception
MetaDiscussionCatches(exc) == exc = "PhaseTimeoutError" \/ exc \in Exceptions

\* send: except Exception
SendCatches(exc) == exc \in Exceptions

(* ------------------------------- state --------------------------------- *)

VARIABLES
    voices,                \* self.voices: the model ids, in list order
    conversation_history,  \* self.conversation_history
    start_time,            \* self._start_time (-1 is None)
    total_tokens,          \* self._total_tokens
    phase_tokens,          \* self._phase_tokens
    now,                   \* time.time()
    pc,                    \* where the running call is
    caller,                \* the public method that is running
    calls,                 \* the public methods called so far, in order
    constraints,           \* send: the caller's constraints
    draft_response,        \* send: draft_response
    analysis_responses,    \* send: analysis_responses
    plan_responses,        \* send: plan_responses
    phase,                 \* _collaborate_phase / _run_phase_with_timeout: phase
    cconstraints,          \* _collaborate_phase: constraints
    iterations,            \* _collaborate_phase: iterations
    i,                     \* _collaborate_phase: the loop index
    all_responses,         \* _collaborate_phase: all_responses
    time_budget,           \* _run_phase_with_timeout: time_budget
    token_budget,          \* _run_phase_with_timeout: token_budget
    deadline,              \* when the wait_for of the dispatch expires
    tasks,                 \* _run_phase_with_timeout: tasks, one per voice
    strays,                \* tasks of earlier dispatches that still run
    outcome,               \* how the last dispatch ended
    responses,             \* what the last dispatch returned
    hist_mark,             \* len(conversation_history) when the call started
    dispatch_log,          \* the dispatches of the running (or last) call, in order
    ret,                   \* what the last call returned
    rot                    \* the rotation that is followed from one voice

vars ==
    <<voices, conversation_history, start_time, total_tokens, phase_tokens, now, pc,
      caller, calls, constraints, draft_response, analysis_responses, plan_responses,
      phase, cconstraints, iterations, i, all_responses, time_budget, token_budget,
      deadline, tasks, strays, outcome, responses, hist_mark, dispatch_log, ret, rot>>

\* What no method of Ensemble assigns after __init__.
fixedVars == <<voices, rot>>

selfVars == <<conversation_history, start_time, total_tokens, phase_tokens>>

sendLocals == <<constraints, draft_response, analysis_responses, plan_responses>>

collabLocals == <<phase, cconstraints, iterations, i, all_responses>>

dispatchVars == <<time_budget, token_budget, deadline, tasks, outcome, responses>>

NoConstraints == ResourceConstraints(0, 0, 0)

NoReturn == [call |-> "none", raised |-> FALSE, value |-> <<>>]

NoRotation == [start |-> "", cur |-> "", steps |-> 0]

\* Ensemble.__init__(voices): the fields of a new Ensemble; nothing runs yet.
Constructed(vs) ==
    /\ voices = vs
    /\ conversation_history = <<>>
    /\ start_time = -1
    /\ total_tokens = 0
    /\ phase_tokens = [p \in Phase |-> 0]
    /\ now = 0
    /\ pc = "idle"
    /\ caller = "none"
    /\ calls = <<>>
    /\ constraints = NoConstraints
    /\ draft_response = <<>>
    /\ analysis_responses = <<>>
    /\ plan_responses = <<>>
    /\ phase = INITIALIZATION
    /\ cconstraints = NoConstraints
    /\ iterations = 0
    /\ i = 0
    /\ all_responses = <<>>
    /\ time_budget = 0
    /\ token_budget = 0
    /\ deadline = 0
    /\ tasks = <<>>
    /\ strays = 0
    /\ outcome = "none"
    /\ responses = <<>>
    /\ hist_mark = 0
    /\ dispatch_log = <<>>
    /\ ret = NoReturn

\* An Ensemble over the first n model ids, for each n up to MaxVoices.
Init ==
    /\ \E n \in 0..MaxVoices : Constructed(SubSeq(ModelIds, 1, n))
    /\ rot = NoRotation

(* ---------------------- budgets of send's phases ------------------------ *)

\* The remaining time with the elapsed time added instead of subtracted.
RemainingTimeSignSlip(cons, t, start) == cons.max_time + (t - start)

\* constraints.max_time - (time.time() - self._start_time)
RemainingTime(cons, t, start) == cons.max_time - (t - start)

\* The remaining tokens with the tokens already used left out of the account.
RemainingTokensOfBudget(cons, total) == cons.max_tokens

\* constraints.max_tokens - self._total_tokens
RemainingTokens(cons, total) == cons.max_tokens - total

\* _collaborate_phase: iteration_constraints (the divisions are exact on the clock's grid)
IterationConstraints(remaining_tokens, remaining_time, iters, idx) ==
    ResourceConstraints(remaining_tokens \div (iters - idx), 1,
                        remaining_time \div (iters - idx))

\* send: plan_constraints
PlanConstraints(cons, remaining_tokens, remaining_time) ==
    ResourceConstraints(remaining_tokens \div 2, cons.max_iterations \div 2,
                        remaining_time \div 2)

\* send: draft_constraints
DraftConstraints(cons, remaining_tokens, remaining_time) ==
    ResourceConstraints(remaining_tokens, Max(1, cons.max_iterations \div 2),
                        remaining_time)

\* The tasks list with the phase's whole budget handed to every voice.
CreateTasksWholeBudget(vs, budget) ==
    [v \in 1..Len(vs) |->
        [status |-> "pending",
         from_model |-> vs[v],
         to_model |-> GetNextVoice(vs, vs[v]),
         max_tokens |-> budget,
         cap |-> RequestCap(budget),
         order |-> 0,
         msg |-> <<>>]]

\* The tasks list with the last voice of the list left out.
CreateTasksSkipLast(vs, budget) ==
    [v \in 1..(Len(vs) - 1) |->
        [status |-> "pending",
         from_model |-> vs[v],
         to_model |-> GetNextVoice(vs, vs[v]),
         max_tokens |-> budget \div Len(vs),
         cap |-> RequestCap(budget \div Len(vs)),
         order |-> 0,
         msg |-> <<>>]]

\* The tasks list of _run_phase_with_timeout: one voice.send per voice, in list order.
CreateTasks(vs, budget) ==
    [v \in 1..Len(vs) |->
        [status |-> "pending",
         from_model |-> vs[v],
         to_model |-> GetNextVoice(vs, vs[v]),
         max_tokens |-> budget \div Len(vs),
         cap |-> RequestCap(budget \div Len(vs)),
         order |-> 0,
         msg |-> <<>>]]

Pending(ts) == {v \in DOMAIN ts : ts[v].status = "pending"}

\* asyncio.gather(*tasks) has its result: every task is done (also when there is none).
GatherDone(ts) == \A v \in DOMAIN ts : ts[v].status = "done"

\* The results in the order in which the tasks completed.
GatherResultAsCompleted(ts) ==
    [k \in DOMAIN ts |-> ts[CHOOSE v \in DOMAIN ts : ts[v].order = k].msg[1]]

\* The list gather returns: the results in the order of the tasks.
GatherResult(ts) == [v \in DOMAIN ts |-> ts[v].msg[1]]

\* A wait without a timeout: gather awaited as it is.
TimedOutNever(t, dl, ts) == FALSE

\* asyncio.wait_for(..., timeout=time_budget) gives up.
TimedOut(t, dl, ts) == t >= dl /\ Pending(ts) # {}

(* ------------------------------ actions -------------------------------- *)

\* The call of _collaborate_phase(phase, content, constraints, iterations).
EnterCollaborate(ph, cons, iters) ==
    /\ phase' = ph
    /\ cconstraints' = cons
    /\ iterations' = iters
    /\ i' = 0
    /\ all_responses' = <<>>
    /\ pc' = "collab"

\* _run_phase_with_timeout up to its await: budgets, tasks, wait_for.
StartDispatch(ph, cons, log) ==
    /\ time_budget' = TimeBudget(ph, cons)
    /\ token_budget' = TokenBudget(ph, cons)
    /\ tasks' = CreateTasks(voices, TokenBudget(ph, cons))
    /\ deadline' = now + TimeBudget(ph, cons)
    /\ outcome' = "pending"
    /\ responses' = <<>>
    /\ pc' = "wait"
    /\ dispatch_log' = Append(log,
            [phase |-> ph, outcome |-> "pending", started |-> now,
             tokens_before |-> total_tokens, time_budget |-> TimeBudget(ph, cons),
             token_budget |-> TokenBudget(ph, cons), calls |-> Len(voices),
             messages |-> 0])

\* A public method returns (or raises) to its caller; its locals are gone.
ReturnToCaller(value, raised) ==
    /\ ret' = [call |-> caller, raised |-> raised, value |-> value]
    /\ pc' = "idle"
    /\ caller' = "none"
    /\ constraints' = NoConstraints
    /\ draft_response' = <<>>
    /\ analysis_responses' = <<>>
    /\ plan_responses' = <<>>
    /\ phase' = INITIALIZATION
    /\ cconstraints' = NoConstraints
    /\ iterations' = 0
    /\ i' = 0
    /\ all_responses' = <<>>
    /\ time_budget' = 0
    /\ token_budget' = 0
    /\ deadline' = 0
    /\ tasks' = <<>>
    /\ outcome' = "none"
    /\ responses' = <<>>

\* send, lines 85-99: reset, then the analysis phase.
CallSend(c, limit) ==
    /\ pc = "idle"
    /\ Len(calls) < limit
    /\ calls' = Append(calls, "send")
    /\ caller' = "send"
    /\ start_time' = now
    /\ total_tokens' = 0
    /\ draft_response' = <<>>
    /\ constraints' = c
    /\ hist_mark' = Len(conversation_history)
    /\ ret' = NoReturn
    /\ dispatch_log' = <<>>
    /\ EnterCollaborate(USER_ANALYSIS, c, 2)
    /\ UNCHANGED <<fixedVars, conversation_history, phase_tokens, now,
                   analysis_responses, plan_responses, dispatchVars, strays>>

\* initialize_meta_discussion, lines 150-165.
CallInit(iters, limit) ==
    /\ pc = "idle"
    /\ Len(calls) < limit
    /\ calls' = Append(calls, "init")
    /\ caller' = "init"
    /\ hist_mark' = Len(conversation_history)
    /\ ret' = NoReturn
    /\ phase' = INITIALIZATION
    /\ StartDispatch(INITIALIZATION,
            ResourceConstraints(MetaTokensPerVoice * Len(voices), iters,
                                MetaMaxTimeSec * TimeUnit),
            <<>>)
    /\ UNCHANGED <<fixedVars, selfVars, now, sendLocals, cconstraints, iterations, i,
                   all_responses, strays>>

\* _collaborate_phase, lines 186-208: the head of the loop.
CollabIter ==
    /\ pc = "collab"
    /\ LET remaining_time == RemainingTime(cconstraints, now, start_time)
           remaining_tokens == RemainingTokens(cconstraints, total_tokens)
       IN IF i >= iterations \/ remaining_time <= 0 \/ remaining_tokens <= 0
          THEN /\ pc' = "send_cont"
               /\ UNCHANGED <<dispatchVars, dispatch_log>>
          ELSE StartDispatch(phase,
                    IterationConstraints(remaining_tokens, remaining_time, iterations, i),
                    dispatch_log)
    /\ UNCHANGED <<fixedVars, selfVars, now, caller, calls, sendLocals, collabLocals,
                   strays, hist_mark, ret>>

\* A voice.send returns its Message before the deadline.
VoiceComplete(v, r) ==
    /\ pc = "wait"
    /\ v \in Pending(tasks)
    /\ now < deadline
    /\ tasks' = [tasks EXCEPT ![v].status = "done",
                              ![v].order = Cardinality(DOMAIN tasks \ Pending(tasks)) + 1,
                              ![v].msg = <<Message(r.content, r.tokens_used,
                                                    tasks[v].from_model,
                                                    tasks[v].to_model, phase)>>]
    /\ UNCHANGED <<fixedVars, selfVars, now, pc, caller, calls, sendLocals,
                   collabLocals, time_budget, token_budget, deadline, strays, outcome,
                   responses, hist_mark, dispatch_log, ret>>

\* Time passes while wait_for is awaited, up to the deadline.
Advance ==
    /\ pc = "wait"
    /\ Pending(tasks) # {}
    /\ now < deadline
    /\ now' = Min(deadline, now + Step)
    /\ UNCHANGED <<fixedVars, selfVars, pc, caller, calls, sendLocals, collabLocals,
                   dispatchVars, strays, hist_mark, dispatch_log, ret>>

\* A dispatch that is left without being ended: its entry stays as it was.
ClosedNever(log, how, n) == log

\* The last dispatch of the log ended, with so many Messages returned.
Closed(log, how, n) ==
    [log EXCEPT ![Len(log)].outcome = how, ![Len(log)].messages = n]

\* The exception ends in the handlers of _collaborate_phase (lines 216-219).
CaughtInCollaborate(exc) ==
    caller = "send" /\ CollaborateCatches(RunPhaseRaises(exc))

\* An exception leaves the try of _run_phase_with_timeout and unwinds the callers.
Unwind(exc) ==
    LET e == RunPhaseRaises(exc)
    IN IF caller = "init"
       THEN /\ ReturnToCaller(<<>>, ~MetaDiscussionCatches(e))
            /\ UNCHANGED <<selfVars, calls, hist_mark>>
       ELSE IF CaughtInCollaborate(exc)
       THEN /\ pc' = "send_cont"
            /\ UNCHANGED <<selfVars, caller, calls, sendLocals, collabLocals,
                           time_budget, token_budget, deadline, responses, hist_mark,
                           ret>>
       ELSE IF SendCatches(e)
       THEN /\ ReturnToCaller(
                    FormatFinalResponse(
                        IF draft_response = <<>> THEN ErrorResponse(e)
                        ELSE draft_response,
                        total_tokens, now - start_time),
                    FALSE)
            /\ UNCHANGED <<selfVars, calls, hist_mark>>
       ELSE /\ ReturnToCaller(<<>>, TRUE)
            /\ UNCHANGED <<selfVars, calls, hist_mark>>

\* A voice.send raises RuntimeError (voice.py:79-81); gather passes it on at once
\* and leaves the other tasks running.
VoiceFail(v) ==
    /\ pc = "wait"
    /\ v \in Pending(tasks)
    /\ now < deadline
    /\ strays' = strays + Cardinality(Pending(tasks) \ {v})
    /\ IF CaughtInCollaborate("RuntimeError")
       THEN /\ tasks' = [tasks EXCEPT ![v].status = "failed"]
            /\ outcome' = "error"
       ELSE TRUE
    /\ dispatch_log' = Closed(dispatch_log, "error", 0)
    /\ Unwind("RuntimeError")
    /\ UNCHANGED <<fixedVars, now>>

\* wait_for's timeout: lines 75-81, the tasks still running are cancelled.
PhaseTimeout ==
    /\ pc = "wait"
    /\ TimedOut(now, deadline, tasks)
    /\ IF CaughtInCollaborate("TimeoutError")
       THEN /\ tasks' = [v \in DOMAIN tasks |->
                            IF tasks[v].status = "pending"
                            THEN [tasks[v] EXCEPT !.status = "cancelled"]
                            ELSE tasks[v]]
            /\ outcome' = "timeout"
       ELSE TRUE
    /\ dispatch_log' = Closed(dispatch_log, "timeout", 0)
    /\ Unwind("TimeoutError")
    /\ UNCHANGED <<fixedVars, now, strays>>

\* A task that outlived its dispatch ends; nobody reads its result.
StrayEnds ==
    /\ strays > 0
    /\ strays' = strays - 1
    /\ UNCHANGED <<fixedVars, selfVars, now, pc, caller, calls, sendLocals,
                   collabLocals, dispatchVars, hist_mark, dispatch_log, ret>>

\* gather has every result: lines 67-73, then the caller's lines after its await
\* (210-214 of _collaborate_phase, 168 of initialize_meta_discussion).
DispatchReturn ==
    /\ pc = "wait"
    /\ GatherDone(tasks)
    /\ LET rs == GatherResult(tasks)
           ptokens == SumTokens(rs)
       IN /\ phase_tokens' = [phase_tokens EXCEPT ![phase] = ptokens]
          /\ total_tokens' = total_tokens + ptokens
          /\ conversation_history' = conversation_history \o rs
          /\ dispatch_log' = Closed(dispatch_log, "returned", Len(rs))
          /\ IF caller = "init"
             THEN /\ ReturnToCaller(<<>>, FALSE)
                  /\ UNCHANGED <<calls, hist_mark>>
             ELSE /\ all_responses' = all_responses \o rs
                  /\ i' = i + 1
                  /\ responses' = rs
                  /\ outcome' = "returned"
                  /\ pc' = "collab"
                  /\ UNCHANGED <<caller, calls, sendLocals, phase, cconstraints,
                                 iterations, time_budget, token_budget, deadline,
                                 tasks, hist_mark, ret>>
    /\ UNCHANGED <<fixedVars, start_time, now, strays>>

\* send after a _collaborate_phase returned: lines 101-146.
SendCont ==
    /\ pc = "send_cont"
    /\ LET remaining_time == RemainingTime(constraints, now, start_time)
           remaining_tokens == RemainingTokens(constraints, total_tokens)
           final(draft) ==
                /\ ReturnToCaller(
                        FormatFinalResponse(draft, total_tokens, now - start_time),
                        FALSE)
                /\ UNCHANGED calls
       IN CASE phase = USER_ANALYSIS ->
                IF remaining_time > 0 /\ remaining_tokens > 0
                THEN /\ analysis_responses' = all_responses
                     /\ EnterCollaborate(RESPONSE_PLANNING,
                            PlanConstraints(constraints, remaining_tokens,
                                            remaining_time), 1)
                     /\ UNCHANGED <<caller, calls, constraints, draft_response,
                                    plan_responses, dispatchVars, ret>>
                ELSE final(draft_response)
            [] phase = RESPONSE_PLANNING ->
                IF remaining_time > 0 /\ remaining_tokens > 0
                THEN /\ plan_responses' = all_responses
                     /\ EnterCollaborate(RESPONSE_DRAFTING,
                            DraftConstraints(constraints, remaining_tokens,
                                             remaining_time), 1)
                     /\ UNCHANGED <<caller, calls, constraints, draft_response,
                                    analysis_responses, dispatchVars, ret>>
                ELSE final(draft_response)
            [] OTHER -> final(IntegrateResponses(all_responses))
    /\ UNCHANGED <<fixedVars, selfVars, now, strays, hist_mark, dispatch_log>>

Next ==
    \/ \E c \in CallerConstraints : CallSend(c, 1)
    \/ CallInit(1, 1)
    \/ CollabIter
    \/ \E v \in DOMAIN tasks, r \in Replies : VoiceComplete(v, r)
    \/ \E v \in DOMAIN tasks : VoiceFail(v)
    \/ Advance
    \/ PhaseTimeout
    \/ StrayEnds
    \/ DispatchReturn
    \/ SendCont

Spec == Init /\ [][Next]_vars

(* ------------------- an Ensemble of a single voice ---------------------- *)

InitSingleVoice ==
    /\ Constructed(SubSeq(ModelIds, 1, 1))
    /\ rot = NoRotation

\* With one voice no task outlives a dispatch, so StrayEnds has nothing to end.
NextSingleVoice ==
    \/ \E c \in CallerConstraints : CallSend(c, 1)
    \/ CallInit(1, 1)
    \/ CollabIter
    \/ \E v \in DOMAIN tasks, r \in Replies : VoiceComplete(v, r)
    \/ \E v \in DOMAIN tasks : VoiceFail(v)
    \/ Advance
    \/ PhaseTimeout
    \/ DispatchReturn
    \/ SendCont

\* The event loop runs whatever is ready and its clock goes on: a step that can be
\* taken is taken.
SpecSingleVoice ==
    InitSingleVoice /\ [][NextSingleVoice]_vars /\ WF_vars(NextSingleVoice)

(* ---------------- several calls on the same Ensemble ------------------- *)

\* send and initialize_meta_discussion are called one after the other, in any
\* order, on an Ensemble of one voice.
NextCalls ==
    \/ \E c \in CallerConstraints : CallSend(c, MaxCalls)
    \/ CallInit(1, MaxCalls)
    \/ CollabIter
    \/ \E v \in DOMAIN tasks, r \in Replies : VoiceComplete(v, r)
    \/ \E v \in DOMAIN tasks : VoiceFail(v)
    \/ Advance
    \/ PhaseTimeout
    \/ DispatchReturn
    \/ SendCont

SpecCalls == InitSingleVoice /\ [][NextCalls]_vars

(* --------------------- _integrate_responses alone ----------------------- *)

\* The contents of the Messages handed to _integrate_responses: plain, padded with
\* whitespace, whitespace only, and with a blank line inside.
Contents ==
    { <<"a">>, <<" ", "a", "\n">>, <<"\n", "\n", "a">>, <<"b">>, <<" ">>,
      <<"a", "\n", "\n", "b">> }

\* The Messages that carry the given contents, in order.
AsMessages(contents) ==
    [k \in DOMAIN contents |->
        Message(contents[k], 1, ModelIds[1], ModelIds[1], RESPONSE_DRAFTING)]

InitIntegrate ==
    /\ Constructed(SubSeq(ModelIds, 1, 1))
    /\ rot = NoRotation

\* One more Message in the list that will be integrated.
Collect(c) ==
    /\ pc = "idle"
    /\ Len(all_responses) < MaxMessages
    /\ all_responses' = all_responses \o AsMessages(<<c>>)
    /\ UNCHANGED <<fixedVars, selfVars, now, pc, caller, calls, sendLocals, phase,
                   cconstraints, iterations, i, dispatchVars, strays, hist_mark,
                   dispatch_log, ret>>

\* draft_response = self._integrate_responses(draft_responses)
Integrate ==
    /\ pc = "idle"
    /\ draft_response' = IntegrateResponses(all_responses)
    /\ pc' = "integrated"
    /\ UNCHANGED <<fixedVars, selfVars, now, caller, calls, constraints,
                   analysis_responses, plan_responses, collabLocals, dispatchVars,
                   strays, hist_mark, dispatch_log, ret>>

\* The unique contents of the first integration, as Messages, integrated again.
IntegrateAgain ==
    /\ pc = "integrated"
    /\ plan_responses' = AsMessages(UniqueContents(all_responses, <<>>))
    /\ ret' = [call |-> "integrate", raised |-> FALSE,
               value |-> IntegrateResponses(
                            AsMessages(UniqueContents(all_responses, <<>>)))]
    /\ pc' = "reintegrated"
    /\ UNCHANGED <<fixedVars, selfVars, now, caller, calls, constraints,
                   draft_response, analysis_responses, collabLocals, dispatchVars,
                   strays, hist_mark, dispatch_log>>

NextIntegrate ==
    \/ \E c \in Contents : Collect(c)
    \/ Integrate
    \/ IntegrateAgain

SpecIntegrate == InitIntegrate /\ [][NextIntegrate]_vars

(* ------------------------ the rotation policy --------------------------- *)

\* The lists of 1..MaxRotVoices distinct voices.
RotationLists ==
    {vs \in UNION {[1..n -> Range(ModelIds)] : n \in 1..MaxRotVoices} :
        \A a, b \in DOMAIN vs : a # b => vs[a] # vs[b]}

InitRotation ==
    /\ \E vs \in RotationLists : Constructed(vs)
    /\ \E v \in Range(voices) : rot = [start |-> v, cur |-> v, steps |-> 0]

\* One more application of _get_next_voice, up to len(voices) of them.
RotateStep ==
    /\ rot.steps < Len(voices)
    /\ rot' = [rot EXCEPT !.cur = GetNextVoice(voices, rot.cur), !.steps = @ + 1]
    /\ UNCHANGED <<voices, selfVars, now, pc, caller, calls, sendLocals, collabLocals,
                   dispatchVars, strays, hist_mark, dispatch_log, ret>>

NextRotation == RotateStep

SpecRotation == InitRotation /\ [][NextRotation]_vars

(* ------------------------------ claims --------------------------------- *)

LastDispatch == dispatch_log[Len(dispatch_log)]

\* The Messages the running (or last) call recorded.
Recorded == SubSeq(conversation_history, hist_mark + 1, Len(conversation_history))

SendReturned == ret.call = "send"

RECURSIVE SumOver(_, _)
SumOver(S, f) ==
    IF S = {} THEN 0
    ELSE LET x == CHOOSE y \in S : TRUE IN f[x] + SumOver(S \ {x}, f)

\* C1: send never raises when voice calls fail with a transport error or a phase
\* deadline expires, in any combination and phase; it returns a non-empty string,
\* at the least the "No response generated" notice.
C1_SendReturnsText ==
    SendReturned => ~ret.raised /\ Len(ret.value) > 0

\* A send that saw a failing voice call in one dispatch and an expired deadline in
\* another has returned.
C1_Witness ==
    /\ SendReturned
    /\ ~ret.raised
    /\ \E k, j \in DOMAIN dispatch_log :
        dispatch_log[k].outcome = "error" /\ dispatch_log[j].outcome = "timeout"

\* C2: with max_time > 0 and a non-empty voice list, send is never running later
\* than max_time after its start, even if every voice call hangs: a dispatch is
\* ended by its deadline and no deadline lies beyond start + max_time.
C2_SendWithinMaxTime ==
    caller = "send" /\ voices # <<>> =>
        /\ now - start_time <= constraints.max_time
        /\ pc = "wait" =>
            now <= deadline /\ deadline <= start_time + constraints.max_time

\* The voice calls hung: three dispatches, each ended by its deadline, the last
\* with no call finished, and send is about to return.
C2_Witness ==
    /\ caller = "send"
    /\ Len(voices) = 2
    /\ pc = "send_cont"
    /\ phase = RESPONSE_DRAFTING
    /\ Len(dispatch_log) = 3
    /\ \A k \in DOMAIN dispatch_log : dispatch_log[k].outcome = "timeout"
    /\ \A v \in DOMAIN tasks : tasks[v].status = "cancelled"
    /\ now > start_time

\* C3: if a Message was recorded in an earlier phase and the later phases gave
\* nothing (their calls failed or timed out, or they were skipped), the string send
\* returns contains the content of the earlier Messages and is not the notice.
C3_EarlierMessagesReturned ==
    ( /\ SendReturned
      /\ Recorded # <<>>
      /\ \A k \in DOMAIN dispatch_log :
            dispatch_log[k].phase = RESPONSE_DRAFTING => dispatch_log[k].messages = 0 )
    => /\ ret.value # NoResponseNotice
       /\ \A k \in DOMAIN Recorded : Contains(ret.value, Strip(Recorded[k].content))

\* C4: in a dispatch where a voice call fails with a transport error, the dispatch
\* still returns the Message of every voice whose call succeeded.
C4_FailureKeepsOtherResults ==
    caller = "send" /\ outcome = "error" =>
        \A v \in DOMAIN tasks :
            tasks[v].status = "done" => tasks[v].msg[1] \in Range(responses)

\* C5: when the deadline of a phase elapses while a voice call still runs, the
\* Messages of the calls of that phase that had completed are returned as the
\* partial result of the phase.
C5_TimeoutKeepsPartialResults ==
    caller = "send" /\ outcome = "timeout" =>
        \A v \in DOMAIN tasks :
            tasks[v].status = "done" =>
                /\ tasks[v].msg[1] \in Range(responses)
                /\ tasks[v].msg[1] \in Range(Recorded)

\* C6: with an empty voice list a configuration error is raised before any
\* Voice.send call is made, and no Message is produced: neither send nor
\* initialize_meta_discussion returns normally.
C6_EmptyVoiceListIsRejected ==
    voices = <<>> /\ ret.call # "none" =>
        /\ ret.raised
        /\ Recorded = <<>>
        /\ \A k \in DOMAIN dispatch_log : dispatch_log[k].calls = 0

\* C7: for every dispatch of send, timeBudget = min(timeWeight * maxTime,
\* maxTime - elapsed) and tokenBudget = min(tokenWeight * maxTokens,
\* maxTokens - totalTokensUsed), on the constraints the caller passed to send.
C7_BudgetOfOriginalCappedByRemaining ==
    caller = "send" /\ pc = "wait" =>
        /\ LastDispatch.time_budget =
            Min((PHASE_BUDGETS[phase].time * constraints.max_time) \div 100,
                constraints.max_time - (LastDispatch.started - start_time))
        /\ LastDispatch.token_budget =
            Min((PHASE_BUDGETS[phase].tokens * constraints.max_tokens) \div 100,
                constraints.max_tokens - LastDispatch.tokens_before)

\* C8: over the phases a send run dispatches, the time weights sum to 1.0 and the
\* token weights sum to 1.0.
C8_ActiveWeightsSumToOne ==
    SendReturned =>
        LET active == {dispatch_log[k].phase : k \in DOMAIN dispatch_log}
        IN /\ SumOver(active, [p \in Phase |-> PHASE_BUDGETS[p].time]) = 100
           /\ SumOver(active, [p \in Phase |-> PHASE_BUDGETS[p].tokens]) = 100

\* C9: for N >= 2 distinct voices, _get_next_voice takes the voice at index i to
\* the voice at index (i+1) mod N, never to itself, and N applications from a
\* voice come back to it, and no fewer do.
C9_RotationIsOneCycle ==
    Len(voices) >= 2 =>
        /\ \A k \in DOMAIN voices :
            /\ GetNextVoice(voices, voices[k]) = voices[(k % Len(voices)) + 1]
            /\ GetNextVoice(voices, voices[k]) # voices[k]
        /\ rot.steps = Len(voices) => rot.cur = rot.start
        /\ rot.steps > 0 /\ rot.steps < Len(voices) => rot.cur # rot.start

\* The rotation was followed all the way round a list of two or more voices.
C9_Witness ==
    Len(voices) >= 2 /\ rot.steps = Len(voices) /\ rot.cur = rot.start

\* C10: in an Ensemble of one voice the rotation target of the voice is the voice
\* itself, and a send that was called returns, whatever the voice call does.
C10_SingleVoiceSendReturns ==
    /\ [](pc = "wait" =>
            \A v \in DOMAIN tasks : tasks[v].to_model = tasks[v].from_model)
    /\ (caller = "send") ~> (SendReturned /\ ~ret.raised)

\* The one voice addressed itself, hung in every phase, and send returned.
C10_Witness ==
    /\ Len(voices) = 1
    /\ SendReturned
    /\ Len(dispatch_log) = 3
    /\ \A k \in DOMAIN dispatch_log : dispatch_log[k].outcome = "timeout"

\* C11: in every dispatch over N voices with phase token budget B, every voice's
\* send call is given max_tokens = floor(B / N); the per-voice budgets sum to at
\* most B, and they stay what they were at dispatch while the phase runs.
C11_EvenStaticSplit ==
    [][ /\ pc' = "wait" /\ voices # <<>> =>
            /\ \A v \in DOMAIN tasks' :
                    tasks'[v].max_tokens = token_budget' \div Len(voices)
            /\ DOMAIN tasks' = 1..Len(voices)
            /\ Len(voices) * (token_budget' \div Len(voices)) <= token_budget'
        /\ pc = "wait" /\ pc' = "wait" =>
            /\ token_budget' = token_budget
            /\ \A v \in DOMAIN tasks : tasks'[v].max_tokens = tasks[v].max_tokens
      ]_vars

\* Two voices share an odd budget: one voice has answered and the other still runs
\* on the share it was given, the odd token dropped.
C11_Witness ==
    /\ pc = "wait"
    /\ Len(voices) = 2
    /\ token_budget > 2
    /\ token_budget % 2 = 1
    /\ tasks[1].status = "done"
    /\ tasks[2].status = "pending"
    /\ tasks[2].max_tokens = (token_budget - 1) \div 2

\* C12: after any sequence of initialize_meta_discussion and send calls, and at
\* every point between dispatches, _total_tokens is the sum of tokens_used over the
\* Messages the run has recorded (those added to the history since the call began).
C12_TotalIsSumOfRecorded ==
    total_tokens = SumTokens(Recorded)

\* C13: at the start of every send call the run state is fresh, whatever calls were
\* made before on the same Ensemble: _total_tokens is 0, every per-phase token
\* total is 0 and the recorded Message history is empty.
C13_SendStartsFresh ==
    caller = "send" /\ pc = "collab" /\ phase = USER_ANALYSIS /\ i = 0 =>
        /\ total_tokens = 0
        /\ \A p \in Phase : phase_tokens[p] = 0
        /\ conversation_history = <<>>

\* The place of a phase in the order of send.
PhaseRank(p) ==
    CASE p = USER_ANALYSIS -> 1
      [] p = RESPONSE_PLANNING -> 2
      [] p = RESPONSE_DRAFTING -> 3
      [] OTHER -> 0

\* C14: within one send call the dispatches are of USER_ANALYSIS, RESPONSE_PLANNING
\* and RESPONSE_DRAFTING in this order, none of an earlier phase after one of a
\* later phase, and a dispatch starts only when the one before it has returned
\* (completed, timed out or failed).
C14_PhasesInOrder ==
    caller = "send" \/ SendReturned =>
        /\ \A k \in DOMAIN dispatch_log : PhaseRank(dispatch_log[k].phase) >= 1
        /\ \A k, j \in DOMAIN dispatch_log :
                k < j => /\ PhaseRank(dispatch_log[k].phase)
                                <= PhaseRank(dispatch_log[j].phase)
                         /\ dispatch_log[k].outcome # "pending"
        /\ \A k \in DOMAIN dispatch_log :
                dispatch_log[k].outcome = "pending" => pc = "wait"

\* A send that dispatched the analysis twice, then the planning, then the drafting,
\* one of them ended by its deadline.
C14_Witness ==
    /\ SendReturned
    /\ Len(dispatch_log) = 4
    /\ dispatch_log[2].phase = USER_ANALYSIS
    /\ dispatch_log[3].phase = RESPONSE_PLANNING
    /\ dispatch_log[4].phase = RESPONSE_DRAFTING
    /\ \E k \in DOMAIN dispatch_log : dispatch_log[k].outcome = "timeout"

\* C15: if max_time - elapsed <= 0 or max_tokens - _total_tokens <= 0 when a phase
\* is about to start, send goes directly to the final formatting and returns; and
\* no dispatch of that or any later phase starts, since every dispatch of send
\* starts with time and tokens remaining.
C15_ExhaustedSkipsToFormatting ==
    [][ /\ ( /\ caller = "send" /\ pc = "send_cont" /\ pc' # "send_cont"
             /\ phase \in {USER_ANALYSIS, RESPONSE_PLANNING}
             /\ \/ constraints.max_time - (now - start_time) <= 0
                \/ constraints.max_tokens - total_tokens <= 0 )
           => /\ pc' = "idle"
              /\ ret'.call = "send" /\ ~ret'.raised
              /\ dispatch_log' = dispatch_log
        /\ caller = "send" /\ Len(dispatch_log') > Len(dispatch_log)
           => /\ constraints.max_time - (now - start_time) > 0
              /\ constraints.max_tokens - total_tokens > 0
      ]_vars

\* The analysis used more tokens than any caller allows: planning and drafting
\* were not dispatched and send returned.
C15_Witness ==
    /\ SendReturned
    /\ Len(dispatch_log) = 2
    /\ \A k \in DOMAIN dispatch_log :
            dispatch_log[k].phase = USER_ANALYSIS /\ dispatch_log[k].outcome = "returned"
    /\ total_tokens >= MaxTokens

\* Where a trimmed content occurs first in a list of Messages.
FirstOccurrence(ms, c) ==
    CHOOSE k \in DOMAIN ms :
        /\ Strip(ms[k].content) = c
        /\ \A j \in 1..(k - 1) : Strip(ms[j].content) # c

\* C16: _integrate_responses deduplicates by exact whitespace-trimmed content:
\* every distinct non-empty trimmed content is one of the parts of the output
\* exactly once, the parts are in the order of first occurrence in the input and
\* are joined by a blank line, and every such content is contained in the output.
C16_IntegrateDeduplicates ==
    pc = "integrated" =>
        LET U == UniqueContents(all_responses, <<>>)
            S == {Strip(all_responses[k].content) : k \in DOMAIN all_responses}
                    \ {<<>>}
        IN /\ Range(U) = S
           /\ Len(U) = Cardinality(S)
           /\ \A a, b \in DOMAIN U :
                a < b => FirstOccurrence(all_responses, U[a])
                            < FirstOccurrence(all_responses, U[b])
           /\ draft_response = Join(<<"\n", "\n">>, U)
           /\ \A c \in S : Contains(draft_response, c)

\* Three Messages, the first and the last with the same trimmed content and
\* another between them, were integrated into two parts.
C16_Witness ==
    /\ pc = "integrated"
    /\ Len(all_responses) = 3
    /\ all_responses[1].content # all_responses[3].content
    /\ Strip(all_responses[1].content) = Strip(all_responses[3].content)
    /\ Strip(all_responses[2].content) \notin {<<>>, Strip(all_responses[1].content)}
    /\ draft_response = Strip(all_responses[1].content) \o <<"\n", "\n">>
                            \o Strip(all_responses[2].content)

\* C17: integration is idempotent: the unique contents of an integration, turned
\* back into Messages and integrated again, give the same unique contents in the
\* same order, and the same text.
C17_IntegrateIdempotent ==
    pc = "reintegrated" =>
        /\ UniqueContents(plan_responses, <<>>) = UniqueContents(all_responses, <<>>)
        /\ ret.value = draft_response

\* A list with padded and repeated contents was integrated twice, and the first
\* integration had dropped something.
C17_Witness ==
    /\ pc = "reintegrated"
    /\ Len(all_responses) = 3
    /\ Len(plan_responses) = 2
    /\ \E k \in DOMAIN all_responses :
            all_responses[k].content # Strip(all_responses[k].content)
    /\ ret.value = draft_response

\* The Messages the run recorded for a phase.
RecordedFor(p) == SelectSeq(Recorded, LAMBDA m : m.phase = p)

\* C18: after any sequence of completed dispatches of a send, the per-phase token
\* total of every phase is the sum of tokens_used of the Messages recorded for the
\* phase, every iteration's batch included, and the per-phase totals sum to
\* _total_tokens.
C18_PhaseTotalsAddUp ==
    caller = "send" \/ SendReturned =>
        /\ \A p \in Phase : phase_tokens[p] = SumTokens(RecordedFor(p))
        /\ SumOver(Phase, phase_tokens) = total_tokens

\* C19: a phase deadline that expires does not end the run: send returns normally,
\* and after a phase timed out the next phase is dispatched whenever time and
\* tokens of the caller's constraints remain, so send is never past the next phase
\* with nothing dispatched for it in that case.
C19_TimeoutDoesNotEndRun ==
    /\ SendReturned => ~ret.raised
    /\ ~ ( /\ caller = "send" /\ pc = "send_cont"
           /\ dispatch_log # <<>>
           /\ LastDispatch.outcome = "timeout"
           /\ PhaseRank(LastDispatch.phase) < PhaseRank(phase)
           /\ constraints.max_time - (now - start_time) > 0
           /\ constraints.max_tokens - total_tokens > 0 )

\* C20: when a dispatch has returned control (all calls completed, the deadline
\* elapsed, or a voice call failed) none of its voice calls is still in flight; at
\* any moment at most N voice calls are in flight and all of them belong to the
\* dispatch that is being awaited.
C20_NoCallOutlivesItsDispatch ==
    /\ strays = 0
    /\ pc # "wait" => Pending(tasks) = {}
    /\ Cardinality(Pending(tasks)) + strays <= Len(voices)

\* C21: every dispatch, of a phase iteration of send and of
\* initialize_meta_discussion, starts exactly one Voice.send call per voice of the
\* list, N calls for N voices, the k-th by the k-th voice and addressed to the
\* voice that follows it in the list (the first, after the last).
C21_OneCallPerVoice ==
    /\ pc = "wait" =>
        /\ DOMAIN tasks = 1..Len(voices)
        /\ \A v \in DOMAIN tasks :
            /\ tasks[v].from_model = voices[v]
            /\ tasks[v].to_model = voices[(v % Len(voices)) + 1]
    /\ \A k \in DOMAIN dispatch_log : dispatch_log[k].calls = Len(voices)

\* The drafting of a send over two voices is in flight, after the dispatches of
\* the analysis and the planning: a call by each voice, each addressed to the other.
C21_Witness ==
    /\ pc = "wait"
    /\ caller = "send"
    /\ phase = RESPONSE_DRAFTING
    /\ Len(dispatch_log) = 4
    /\ Len(voices) = 2
    /\ Pending(tasks) = {1, 2}
    /\ tasks[1].to_model = voices[2]
    /\ tasks[2].to_model = voices[1]

\* C22: the Messages a dispatch returns are in voice-list order whatever the order
\* in which the voice calls completed, and so are the Messages it adds to the
\* history and the text integrated from them.
C22_ResultsInVoiceOrder ==
    /\ caller = "send" /\ outcome = "returned" =>
        /\ Len(responses) = Len(voices)
        /\ \A k \in DOMAIN responses :
            /\ responses[k].from_model = voices[k]
            /\ responses[k] = tasks[k].msg[1]
        /\ SubSeq(conversation_history,
                  Len(conversation_history) - Len(responses) + 1,
                  Len(conversation_history)) = responses
        /\ IntegrateResponses(responses)
            = IntegrateResponses([k \in DOMAIN voices |-> tasks[k].msg[1]])
    /\ ret.call = "init" =>
        \A k \in DOMAIN Recorded : Recorded[k].from_model = voices[k]

\* The second voice answered before the first, with another text, and the dispatch
\* returned the first voice's Message first.
C22_Witness ==
    /\ caller = "send"
    /\ outcome = "returned"
    /\ Len(voices) = 2
    /\ tasks[2].order = 1
    /\ tasks[1].order = 2
    /\ tasks[1].msg[1].content # tasks[2].msg[1].content
    /\ responses[1] = tasks[1].msg[1]

\* C23: for every dispatch made by send, the time budget is at most max_time minus
\* the time elapsed, and the token budget at most max_tokens minus _total_tokens,
\* on the caller's constraints and at the moment the dispatch starts.
C23_BudgetWithinRemaining ==
    caller = "send" =>
        \A k \in DOMAIN dispatch_log :
            /\ dispatch_log[k].time_budget
                <= constraints.max_time - (dispatch_log[k].started - start_time)
            /\ dispatch_log[k].token_budget
                <= constraints.max_tokens - dispatch_log[k].tokens_before

\* The drafting is dispatched after time has passed and tokens were used, with
\* budgets that are positive and within what is left.
C23_Witness ==
    /\ caller = "send"
    /\ pc = "wait"
    /\ phase = RESPONSE_DRAFTING
    /\ LastDispatch.started > start_time
    /\ LastDispatch.tokens_before > 0
    /\ LastDispatch.token_budget > 0
    /\ LastDispatch.time_budget > 0

\* C24: the token cap Voice.send puts on its completion request is never larger
\* than the token budget the dispatcher passed to the call, a budget of 0 included.
C24_RequestCapWithinBudget ==
    pc = "wait" =>
        \A v \in DOMAIN tasks : tasks[v].cap <= tasks[v].max_tokens

\* The dispatches of the run that returned their Messages, in order.
ReturnedDispatches == SelectSeq(dispatch_log, LAMBDA d : d.outcome = "returned")

\* Every Message the run recorded used no more tokens than the budget given to the
\* voice call that produced it.
RepliesWithinBudget ==
    \A m \in DOMAIN Recorded :
        Recorded[m].tokens_used
            <= ReturnedDispatches[((m - 1) \div Len(voices)) + 1].token_budget
                    \div Len(voices)

\* C25: if every Message's tokens_used is at most the token budget given to the
\* voice call that produced it, _total_tokens never exceeds the max_tokens of the
\* caller's constraints at any point of a send run.
C25_TotalWithinMaxTokens ==
    caller = "send" /\ RepliesWithinBudget => total_tokens <= constraints.max_tokens

\* Both iterations of the analysis, the planning and the drafting of a send
\* returned Messages that kept to their budgets, the last using all of its budget.
C25_Witness ==
    /\ caller = "send"
    /\ pc = "send_cont"
    /\ phase = RESPONSE_DRAFTING
    /\ Len(Recorded) = 4
    /\ RepliesWithinBudget
    /\ Recorded[4].tokens_used = LastDispatch.token_budget
    /\ total_tokens > MaxTokens \div 4

\* C26: a phase of send is skipped only when a resource is exhausted: when
\* RESPONSE_PLANNING or RESPONSE_DRAFTING is reached with time and tokens of the
\* caller's constraints remaining, at least one dispatch is made for the phase, so
\* send never leaves such a phase with none.
C26_SkippedOnlyWhenExhausted ==
    ~ ( /\ caller = "send" /\ pc = "send_cont"
        /\ phase \in {RESPONSE_PLANNING, RESPONSE_DRAFTING}
        /\ \A k \in DOMAIN dispatch_log : dispatch_log[k].phase # phase
        /\ constraints.max_time - (now - start_time) > 0
        /\ constraints.max_tokens - total_tokens > 0 )

\* C27: the number of dispatch rounds of one send call never exceeds the
\* max_iterations of the caller's constraints.
C27_RoundsWithinMaxIterations ==
    caller = "send" /\ voices # <<>> =>
        Len(dispatch_log) <= constraints.max_iterations

(* ------------------------- sanity of the model -------------------------- *)

\* The float divisions and products the code makes on times are exact on the
\* millisecond grid of the clock: no rounding enters the time budgets.
ClockGridExact ==
    /\ pc = "collab" /\ i < iterations =>
        LET rt == RemainingTime(cconstraints, now, start_time)
        IN /\ rt % (iterations - i) = 0
           /\ ((rt \div (iterations - i)) * PHASE_BUDGETS[phase].time) % 100 = 0
    /\ pc = "send_cont" /\ phase = USER_ANALYSIS =>
        RemainingTime(constraints, now, start_time) % 2 = 0
    /\ pc = "wait" => time_budget > 0 \/ voices = <<>> \/ caller = "init"

====
